---- MODULE Spec2Model ----
(***************************************************************************)
(* The procedural audio engine of the Cubist Avant-Garde gallery (App.tsx, *)
(* the melody + drone + delay version): startAudio, stopAudio,             *)
(* toggleAudio, the self-rescheduling playRandomNote timer and the unmount *)
(* cleanup, over an explicit Web Audio node graph.                         *)
(*                                                                         *)
(* Node ids are positions in the sequence nodes.  A connection target is a *)
(* pair <<id, port>>: port "in" is a node input, "frequency" and "gain"    *)
(* are AudioParams; <<0, "in">> is ctx.destination.  Gain values are in    *)
(* thousandths, frequencies in hundredths of a hertz.                      *)
(***************************************************************************)
EXTENDS Integers, Sequences, FiniteSets, TLC

\* Bounds of the exploration: startAudio bodies that run to completion, and
\* melody timer firings.
MaxStarts == 2
MaxTicks == 2

\* Math.random() returns r / RandSteps for r in 0..RandSteps-1, and
\* ctx.currentTime is one of 0..MaxNow seconds, when a note's timing is
\* computed.
RandSteps == 8
MaxNow == 2

\* The drone-only engine: startAudio bodies that run to completion, and the
\* values r / DroneRandSteps of the Math.random() calls of its layers.
MaxDroneStarts == 1
DroneRandSteps == 2

\* The parts of the image API's response generateArtPiece looks through.
MaxParts == 2

\* The pieces the Gallery lays out in columns.
MaxItems == 4

\* The generations handleGenerate starts.
MaxGenerations == 4

VARIABLES
    mounted,           \* the App component is mounted
    isAudioPlaying,    \* React state: EngineState (TRUE = Active)
    audioCtxRef,       \* 0 = null, otherwise the id of the AudioContext
    ctxCreated,        \* number of AudioContext objects constructed so far
    ctxState,          \* "none" | "running" | "suspended"
    masterGainRef,     \* 0 = null, otherwise a node id
    droneNodesRef,     \* the teardown list: sequence of node ids
    melodyTimeoutRef,  \* 0 = null, otherwise a timer id
    nodes,             \* every AudioNode created so far
    timers,            \* pending setTimeout callbacks of playRandomNote
    nextTimer,         \* next timer id setTimeout hands out
    starts,            \* startAudio bodies completed
    ticks,             \* melody timers fired
    ticksSinceStart,   \* melody timers fired since the last completed startAudio
    lastCall,          \* the last startAudio/stopAudio call and how it ended
    uncaught,          \* an exception left startAudio/toggleAudio uncaught
    rnd,               \* the Math.random() and ctx.currentTime values a note's timing is computed from
    note,              \* << >>, or the one timing record computed from rnd
    droneMounted,      \* drone-only engine: the App component is mounted
    dronePlaying,      \* drone-only engine: React state isAudioPlaying
    droneCtxRef,       \* drone-only engine: audioCtxRef, 0 = null
    oscillatorsRef,    \* drone-only engine: the oscillators to stop, node ids
    droneNodes,        \* drone-only engine: every AudioNode created so far
    droneStarts,       \* drone-only engine: startAudio bodies completed
    droneLastCall,     \* drone-only engine: the last call and how it ended
    apiKey,            \* generateArtPiece: process.env.API_KEY, "" = not set
    apiResult,         \* generateArtPiece: how ai.models.generateContent settles
    outcome,           \* generateArtPiece: << >>, or how the one call ended
    items,             \* Gallery: the items prop, a sequence of piece ids
    numCols,           \* Gallery: React state numCols
    columns,           \* Gallery: << >>, or the columns useMemo computed
    galleryItems,      \* App: React state, piece ids, newest first
    isGenerating,      \* App: React state
    isAutoPlaying,     \* App: React state
    error,             \* App: React state, << >> = null, else << message >>
    autoTimer,         \* App: << >>, or the pending timeout of the auto-curate effect
    inFlight,          \* App: handleGenerate calls awaiting generateArtPiece
    generations        \* App: handleGenerate calls so far

engineVars == <<mounted, isAudioPlaying, audioCtxRef, ctxCreated, ctxState,
                masterGainRef, droneNodesRef, melodyTimeoutRef, nodes, timers,
                nextTimer, starts, ticks, ticksSinceStart, lastCall, uncaught>>

noteVars == <<rnd, note>>

droneOnlyVars == <<droneMounted, dronePlaying, droneCtxRef, oscillatorsRef,
                   droneNodes, droneStarts, droneLastCall>>

serviceVars == <<apiKey, apiResult, outcome>>

layoutVars == <<items, numCols, columns>>

appVars == <<galleryItems, isGenerating, isAutoPlaying, error, autoTimer,
             inFlight, generations>>

vars == <<engineVars, noteVars, droneOnlyVars, serviceVars, layoutVars,
          appVars>>

\* What the actions of one part of the program leave alone.
nonEngineVars == <<noteVars, droneOnlyVars, serviceVars, layoutVars, appVars>>
nonNoteVars == <<engineVars, droneOnlyVars, serviceVars, layoutVars, appVars>>
nonDroneOnlyVars == <<engineVars, noteVars, serviceVars, layoutVars, appVars>>
nonServiceVars == <<engineVars, noteVars, droneOnlyVars, layoutVars, appVars>>
nonLayoutVars == <<engineVars, noteVars, droneOnlyVars, serviceVars, appVars>>
nonAppVars == <<engineVars, noteVars, droneOnlyVars, serviceVars, layoutVars>>

Destination == <<0, "in">>

\* An AudioNode: its class, the variable that names it in the source, whether
\* an oscillator runs, its outgoing connections, its gain or frequency value,
\* and the number of completed starts when it was created.
Node(kind, role, state, out, val, born) ==
    [kind |-> kind, role |-> role, state |-> state, out |-> out,
     val |-> val, bornIn |-> born]

\* The nodes one playRandomNote call creates after the n nodes that exist:
\* osc -> gain -> panner -> output, osc started with a scheduled stop.
NoteNodes(n, output, born) ==
    << Node("osc", "melodyOsc", "running", {<<n + 2, "in">>}, 0, born),
       Node("gain", "melodyGain", "na", {<<n + 3, "in">>}, 0, born),
       Node("panner", "melodyPanner", "na", {<<output, "in">>}, 0, born) >>

\* Variant: a feedback gain of 1.
DelayFeedbackGain_Unity == 10 * 100

\* delayFeedback.gain.value = 0.3
DelayFeedbackGain == 300

\* masterGain.gain.value = 0.5, set directly; no ramp is scheduled on it.
MasterGainValue == 500

\* osc1.frequency.value = 82.41; osc2.frequency.value = 123.47
DroneChord == << 8241, 12347 >>

\* The nodes startAudio creates before it calls playRandomNote.
GraphNodes(n, born) ==
    << Node("gain", "masterGain", "na", {<<n + 2, "in">>}, MasterGainValue, born),
       Node("compressor", "compressor", "na", {Destination}, 0, born),
       Node("delay", "delayNode", "na", {<<n + 4, "in">>, <<n + 1, "in">>}, 400, born),
       Node("gain", "delayFeedback", "na", {<<n + 5, "in">>}, DelayFeedbackGain, born),
       Node("filter", "delayFilter", "na", {<<n + 3, "in">>}, 200000, born),
       Node("osc", "osc1", "running", {<<n + 7, "in">>}, DroneChord[1], born),
       Node("gain", "osc1Gain", "na", {<<n + 1, "in">>, <<n + 3, "in">>}, 300, born),
       Node("osc", "lfo1", "running", {<<n + 9, "in">>}, 10, born),
       Node("gain", "lfo1Gain", "na", {<<n + 6, "frequency">>}, 1500, born),
       Node("osc", "osc2", "running", {<<n + 11, "in">>}, DroneChord[2], born),
       Node("gain", "osc2Gain", "na", {<<n + 1, "in">>}, 100, born),
       Node("osc", "lfo2", "running", {<<n + 13, "in">>}, 5, born),
       Node("gain", "lfo2Gain", "na", {<<n + 11, "gain">>}, 50, born),
       Node("gain", "melodyOutput", "na", {<<n + 1, "in">>, <<n + 3, "in">>}, 1000, born) >>

\* Variant: the second push is missing.
DroneIds_FirstLayerOnly(n) == << n + 6, n + 7, n + 8, n + 9 >>

\* Variant: the LFOs and their depth gains are left out of the teardown list.
DroneIds_VoicesOnly(n) == << n + 6, n + 7, n + 10, n + 11 >>

\* drones.push(osc1, osc1Gain, lfo1, lfo1Gain); drones.push(osc2, ...)
DroneIds(n) == << n + 6, n + 7, n + 8, n + 9, n + 10, n + 11, n + 12, n + 13 >>

Range(s) == {s[i] : i \in 1..Len(s)}

EngineInit ==
    /\ mounted = TRUE
    /\ isAudioPlaying = FALSE
    /\ audioCtxRef = 0
    /\ ctxCreated = 0
    /\ ctxState = "none"
    /\ masterGainRef = 0
    /\ droneNodesRef = << >>
    /\ melodyTimeoutRef = 0
    /\ nodes = << >>
    /\ timers = {}
    /\ nextTimer = 1
    /\ starts = 0
    /\ ticks = 0
    /\ ticksSinceStart = 0
    /\ lastCall = "none"
    /\ uncaught = FALSE

\* No note timing has been asked for.
NoteIdle ==
    /\ rnd = [duration |-> 0, interval |-> 0, now |-> 0]
    /\ note = << >>

\* The drone-only engine after construction.
DroneOnlyInit ==
    /\ droneMounted = TRUE
    /\ dronePlaying = FALSE
    /\ droneCtxRef = 0
    /\ oscillatorsRef = << >>
    /\ droneNodes = << >>
    /\ droneStarts = 0
    /\ droneLastCall = "none"

\* generateArtPiece has not been called.
ServiceIdle ==
    /\ apiKey = ""
    /\ apiResult = [rejected |-> FALSE, shape |-> "noCandidates", parts |-> << >>]
    /\ outcome = << >>

\* The Gallery before its first render.
LayoutIdle ==
    /\ items = << >>
    /\ numCols = 1
    /\ columns = << >>

\* The App's generation state after construction.
AppInit ==
    /\ galleryItems = << >>
    /\ isGenerating = FALSE
    /\ isAutoPlaying = FALSE
    /\ error = << >>
    /\ autoTimer = << >>
    /\ inFlight = {}
    /\ generations = 0

Init ==
    /\ EngineInit
    /\ NoteIdle
    /\ DroneOnlyInit
    /\ ServiceIdle
    /\ LayoutIdle
    /\ AppInit

\* Variant: the note is played but no next tick is queued.
PlayRandomNote_NoReschedule(ns, pending, output, born) ==
    /\ nodes' = ns \o NoteNodes(Len(ns), output, born)
    /\ timers' = pending
    /\ melodyTimeoutRef' = 0
    /\ UNCHANGED nextTimer

\* playRandomNote(ctx, output) on the node sequence ns: the context is never
\* closed, so the early return is never taken; one voice is created and the
\* next tick is queued, its id overwriting melodyTimeoutRef.
PlayRandomNote(ns, pending, output, born) ==
    /\ nodes' = ns \o NoteNodes(Len(ns), output, born)
    /\ timers' = pending \cup {[id |-> nextTimer, output |-> output]}
    /\ melodyTimeoutRef' = nextTimer
    /\ nextTimer' = nextTimer + 1

\* Variant: the state is set before the context is constructed.
StartAudioThrows_AfterSetState ==
    /\ audioCtxRef = 0
    /\ uncaught' = TRUE
    /\ lastCall' = "startThrew"
    /\ isAudioPlaying' = TRUE
    /\ UNCHANGED <<mounted, audioCtxRef, ctxCreated, ctxState,
                   masterGainRef, droneNodesRef, melodyTimeoutRef, nodes,
                   timers, nextTimer, starts, ticks, ticksSinceStart>>

\* new AudioContextClass() throws: nothing in startAudio or toggleAudio
\* catches it, so the call ends there and the exception leaves the handler.
StartAudioThrows ==
    /\ audioCtxRef = 0
    /\ uncaught' = TRUE
    /\ lastCall' = "startThrew"
    /\ UNCHANGED <<mounted, isAudioPlaying, audioCtxRef, ctxCreated, ctxState,
                   masterGainRef, droneNodesRef, melodyTimeoutRef, nodes,
                   timers, nextTimer, starts, ticks, ticksSinceStart>>

\* Variant: a context is constructed on every start.
InitContext_AlwaysNew ==
    /\ audioCtxRef' = ctxCreated + 1
    /\ ctxCreated' = ctxCreated + 1

\* if (!audioCtxRef.current) audioCtxRef.current = new AudioContextClass()
InitContext ==
    IF audioCtxRef = 0
    THEN /\ audioCtxRef' = ctxCreated + 1
         /\ ctxCreated' = ctxCreated + 1
    ELSE UNCHANGED <<audioCtxRef, ctxCreated>>

\* if (ctx.state === 'suspended') ctx.resume(); a new context starts running.
ResumeContext == ctxState' = "running"

\* Variant: the first note waits for a timer.
LaunchMelody_Deferred(ns, output, born) ==
    /\ nodes' = ns
    /\ timers' = timers \cup {[id |-> nextTimer, output |-> output]}
    /\ melodyTimeoutRef' = nextTimer
    /\ nextTimer' = nextTimer + 1

\* playRandomNote(ctx, melodyOutput): the first note is played inside
\* startAudio itself, not from a timer.
LaunchMelody(ns, output, born) == PlayRandomNote(ns, timers, output, born)

\* setIsAudioPlaying(true)
StartSetsActive == isAudioPlaying' = TRUE

\* startAudio() running to its end.
StartAudioRuns ==
    /\ starts < MaxStarts
    /\ InitContext
    /\ ResumeContext
    /\ masterGainRef' = Len(nodes) + 1
    /\ droneNodesRef' = DroneIds(Len(nodes))
    /\ LaunchMelody(nodes \o GraphNodes(Len(nodes), starts + 1),
                    Len(nodes) + 14, starts + 1)
    /\ StartSetsActive
    /\ starts' = starts + 1
    /\ ticksSinceStart' = 0
    /\ lastCall' = "start"
    /\ UNCHANGED <<mounted, ticks, uncaught>>

StartAudioBody ==
    \/ StartAudioThrows
    \/ StartAudioRuns

\* node.stop() for an oscillator, then node.disconnect().
StopNode(nd) ==
    [nd EXCEPT !.state = IF nd.kind = "osc" THEN "stopped" ELSE nd.state,
               !.out = {}]

\* if (melodyTimeoutRef.current) { clearTimeout(...); ... = null }
\* clearTimeout of an id that has fired already cancels nothing.
ClearMelodyTimeout ==
    /\ timers' = IF melodyTimeoutRef # 0
                 THEN {t \in timers : t.id # melodyTimeoutRef}
                 ELSE timers
    /\ melodyTimeoutRef' = 0

\* droneNodesRef.current.forEach(stop, disconnect); droneNodesRef.current = []
StopDrones ==
    /\ nodes' = [i \in 1..Len(nodes) |->
                    IF i \in Range(droneNodesRef) THEN StopNode(nodes[i])
                    ELSE nodes[i]]
    /\ droneNodesRef' = << >>

\* if (audioCtxRef.current) audioCtxRef.current.suspend()
SuspendContext ==
    ctxState' = IF audioCtxRef # 0 THEN "suspended" ELSE ctxState

\* Variant: stopAudio leaves the state as it is.
StopSetsIdle_Forgotten == UNCHANGED isAudioPlaying

\* setIsAudioPlaying(false)
StopSetsIdle == isAudioPlaying' = FALSE

\* stopAudio()
StopAudioBody ==
    /\ ClearMelodyTimeout
    /\ StopDrones
    /\ SuspendContext
    /\ StopSetsIdle
    /\ lastCall' = "stop"
    /\ UNCHANGED <<audioCtxRef, ctxCreated, masterGainRef, nextTimer, starts,
                   ticks, ticksSinceStart, uncaught>>

StartAudio == mounted /\ StartAudioBody /\ UNCHANGED nonEngineVars

StopAudio == mounted /\ StopAudioBody /\ UNCHANGED mounted /\ UNCHANGED nonEngineVars

\* toggleAudio(): the Audio button of Controls.
ToggleAudio ==
    /\ mounted
    /\ IF isAudioPlaying THEN StopAudioBody /\ UNCHANGED mounted
       ELSE StartAudioBody
    /\ UNCHANGED nonEngineVars

\* The cleanup of the mount effect.
Unmount ==
    /\ mounted
    /\ StopAudioBody
    /\ mounted' = FALSE
    /\ UNCHANGED nonEngineVars

\* A pending melody timeout fires: () => playRandomNote(ctx, output).
Tick ==
    /\ ticks < MaxTicks
    /\ \E t \in timers :
          PlayRandomNote(nodes, timers \ {t}, t.output, starts)
    /\ ticks' = ticks + 1
    /\ ticksSinceStart' = ticksSinceStart + 1
    /\ UNCHANGED <<mounted, isAudioPlaying, audioCtxRef, ctxCreated, ctxState,
                   masterGainRef, droneNodesRef, starts, lastCall, uncaught>>
    /\ UNCHANGED nonEngineVars

\* Variant: a scheduled stop ends whichever oscillator is running.
NoteEnd_AnyOscillator ==
    /\ ctxState = "running"
    /\ \E i \in 1..Len(nodes) :
          /\ nodes[i].kind = "osc"
          /\ nodes[i].state = "running"
          /\ nodes' = [nodes EXCEPT ![i].state = "ended"]
    /\ UNCHANGED <<mounted, isAudioPlaying, audioCtxRef, ctxCreated, ctxState,
                   masterGainRef, droneNodesRef, melodyTimeoutRef, timers,
                   nextTimer, starts, ticks, ticksSinceStart, lastCall,
                   uncaught>>
    /\ UNCHANGED nonEngineVars

\* osc.stop(now + duration + 1) comes due; the audio clock advances only
\* while the context runs.
NoteEnd ==
    /\ ctxState = "running"
    /\ \E i \in 1..Len(nodes) :
          /\ nodes[i].role = "melodyOsc"
          /\ nodes[i].state = "running"
          /\ nodes' = [nodes EXCEPT ![i].state = "ended"]
    /\ UNCHANGED <<mounted, isAudioPlaying, audioCtxRef, ctxCreated, ctxState,
                   masterGainRef, droneNodesRef, melodyTimeoutRef, timers,
                   nextTimer, starts, ticks, ticksSinceStart, lastCall,
                   uncaught>>
    /\ UNCHANGED nonEngineVars

Next ==
    \/ StartAudio
    \/ StopAudio
    \/ ToggleAudio
    \/ Unmount
    \/ Tick
    \/ NoteEnd

Spec == Init /\ [][Next]_vars

\* A pending timeout is run by the event loop sooner or later.
LiveSpec == Spec /\ WF_vars(Tick)

(***************************************************************************)
(* The timing playRandomNote computes for one note, in milliseconds, from  *)
(* the value r / RandSteps of a Math.random() call and ctx.currentTime.    *)
(***************************************************************************)

\* Variant: the interval's range used for the tail.
NoteDuration_WideRange(r) == 2000 + (r * 5000) \div RandSteps

\* const duration = 2 + Math.random() * 3
NoteDuration(r) == 2000 + (r * 3000) \div RandSteps

\* const nextInterval = 2000 + Math.random() * 5000
NextInterval(r) == 2000 + (r * 5000) \div RandSteps

\* Variant: the oscillator is stopped where the decay ends.
StopTime_NoMargin(now, duration) == now + duration

\* osc.stop(now + duration + 1)
StopTime(now, duration) == now + duration + 1000

\* gain.gain.setValueAtTime(0, now); linearRampToValueAtTime(0.15, now + 0.05);
\* exponentialRampToValueAtTime(0.001, now + duration); levels in thousandths.
Envelope(now, duration) ==
    [startAt |-> now, startLevel |-> 0,
     attackEnd |-> now + 50, peak |-> 150,
     decayEnd |-> now + duration, floor |-> 1]

\* The timing of the note playRandomNote creates at time now.
NoteTiming(now, rDuration, rInterval) ==
    [duration |-> NoteDuration(rDuration),
     envelope |-> Envelope(now, NoteDuration(rDuration)),
     startAt |-> now,
     stopAt |-> StopTime(now, NoteDuration(rDuration)),
     nextInterval |-> NextInterval(rInterval)]

NoteInit ==
    /\ EngineInit
    /\ rnd \in [duration : 0..(RandSteps - 1), interval : 0..(RandSteps - 1),
                now : {1000 * t : t \in 0..MaxNow}]
    /\ note = << >>
    /\ DroneOnlyInit
    /\ ServiceIdle
    /\ LayoutIdle
    /\ AppInit

\* One run of the timing part of playRandomNote.
ComputeNote ==
    /\ note = << >>
    /\ note' = << NoteTiming(rnd.now, rnd.duration, rnd.interval) >>
    /\ UNCHANGED rnd
    /\ UNCHANGED nonNoteVars

NoteNext == ComputeNote

NoteSpec == NoteInit /\ [][NoteNext]_vars

(***************************************************************************)
(* The drone-only engine (the earlier App.tsx): startAudio builds a master *)
(* gain and five layers, each an oscillator, its gain, an LFO and the      *)
(* LFO's depth gain; stopAudio stops the oscillators of oscillatorsRef.    *)
(* Detune is in hundredths of a cent, the LFO rate in ten-thousandths of a *)
(* hertz.                                                                  *)
(***************************************************************************)

DroneNode(kind, role, state, out, val, detune, rampTo, born) ==
    [kind |-> kind, role |-> role, state |-> state, out |-> out, val |-> val,
     detune |-> detune, rampTo |-> rampTo, bornIn |-> born]

\* const layers = [{ freq: 82.41, vol: 0.4 }, ...]
Layers ==
    << [freq |-> 8241, vol |-> 400], [freq |-> 16481, vol |-> 200],
       [freq |-> 24694, vol |-> 150], [freq |-> 31113, vol |-> 150],
       [freq |-> 36999, vol |-> 100] >>

\* const detune = Math.random() * 6 - 3
Detune(r) == (r * 600) \div DroneRandSteps - 300

\* lfo.frequency.value = 0.03 + (Math.random() * 0.05)
LfoRate(r) == 300 + (r * 500) \div DroneRandSteps

\* The nodes one pass of layers.forEach creates after the n nodes that
\* exist: osc -> gain -> masterGain, and lfo -> lfoGain.gain, the depth
\* gain's own output being connected to nothing.
LayerNodes(n, master, k, rDetune, rRate, born) ==
    << DroneNode("osc", "osc", "running", {<<n + 2, "in">>},
                 Layers[k].freq, Detune(rDetune), 0, born),
       DroneNode("gain", "gain", "na", {<<master, "in">>},
                 Layers[k].vol, 0, 0, born),
       DroneNode("osc", "lfo", "running", {<<n + 4, "gain">>},
                 LfoRate(rRate), 0, 0, born),
       DroneNode("gain", "lfoGain", "na", {}, 150, 0, 0, born) >>

RECURSIVE LayerBank(_, _, _, _, _, _)
\* layers.forEach: the nodes of layers k..5, layer k after n existing nodes.
LayerBank(n, master, k, detunes, rates, born) ==
    IF k > Len(Layers) THEN << >>
    ELSE LayerNodes(n, master, k, detunes[k], rates[k], born)
         \o LayerBank(n + 4, master, k + 1, detunes, rates, born)

\* The nodes startAudio creates: the master gain, silent and ramping to
\* 0.25, connected straight to ctx.destination, then the layers.
DroneGraph(n, detunes, rates, born) ==
    << DroneNode("gain", "masterGain", "na", {Destination}, 0, 0, 250, born) >>
    \o LayerBank(n + 1, n + 1, 1, detunes, rates, born)

\* oscillatorsRef.current.push(osc); oscillatorsRef.current.push(lfo)
OscillatorIds(n) ==
    << n + 2, n + 4, n + 6, n + 8, n + 10, n + 12, n + 14, n + 16, n + 18,
       n + 20 >>

\* oscillatorsRef.current.forEach(osc => { try { osc.stop(); } catch(e) {} })
StopOscillators(ns, ids) ==
    [i \in 1..Len(ns) |->
        IF i \in Range(ids) THEN [ns[i] EXCEPT !.state = "stopped"] ELSE ns[i]]

\* new AudioContextClass() throws: nothing has been touched.
DroneStartThrows ==
    /\ droneCtxRef = 0
    /\ droneLastCall' = "startThrew"
    /\ UNCHANGED <<droneMounted, dronePlaying, droneCtxRef, oscillatorsRef,
                   droneNodes, droneStarts>>

DroneStartRuns ==
    /\ droneStarts < MaxDroneStarts
    /\ \E detunes \in [1..Len(Layers) -> 0..(DroneRandSteps - 1)],
          rates \in [1..Len(Layers) -> 0..(DroneRandSteps - 1)] :
          droneNodes' = StopOscillators(droneNodes, oscillatorsRef)
                        \o DroneGraph(Len(droneNodes), detunes, rates,
                                      droneStarts + 1)
    /\ droneCtxRef' = 1
    /\ oscillatorsRef' = OscillatorIds(Len(droneNodes))
    /\ dronePlaying' = TRUE
    /\ droneStarts' = droneStarts + 1
    /\ droneLastCall' = "start"
    /\ UNCHANGED droneMounted

DroneStartBody == DroneStartThrows \/ DroneStartRuns

\* stopAudio(): everything is inside if (audioCtxRef.current).
DroneStopBody ==
    /\ IF droneCtxRef # 0
       THEN /\ droneNodes' = StopOscillators(droneNodes, oscillatorsRef)
            /\ oscillatorsRef' = << >>
            /\ dronePlaying' = FALSE
       ELSE UNCHANGED <<droneNodes, oscillatorsRef, dronePlaying>>
    /\ droneLastCall' = "stop"
    /\ UNCHANGED <<droneCtxRef, droneStarts>>

DroneStartAudio ==
    droneMounted /\ DroneStartBody /\ UNCHANGED nonDroneOnlyVars

DroneStopAudio ==
    /\ droneMounted
    /\ DroneStopBody
    /\ UNCHANGED droneMounted
    /\ UNCHANGED nonDroneOnlyVars

DroneToggleAudio ==
    /\ droneMounted
    /\ IF dronePlaying THEN DroneStopBody /\ UNCHANGED droneMounted
       ELSE DroneStartBody
    /\ UNCHANGED nonDroneOnlyVars

DroneUnmount ==
    /\ droneMounted
    /\ DroneStopBody
    /\ droneMounted' = FALSE
    /\ UNCHANGED nonDroneOnlyVars

DroneOnlyNext ==
    \/ DroneStartAudio
    \/ DroneStopAudio
    \/ DroneToggleAudio
    \/ DroneUnmount

DroneOnlySpec == Init /\ [][DroneOnlyNext]_vars

(***************************************************************************)
(* generateArtPiece (services/geminiService.ts): the credential check, the *)
(* call of the image API, the search of the response for inline image data *)
(* and the piece it returns.  Strings are the source's strings; the base64 *)
(* payload of a part is a short token.                                     *)
(***************************************************************************)

\* A part of the response: text, or inlineData with an optional mimeType
\* ("" = undefined) and data that may be empty.
Parts ==
    {[inlineData |-> FALSE, mimeType |-> "", data |-> ""]}
    \cup [inlineData : {TRUE}, mimeType : {"", "image/jpeg"},
          data : {"", "AAAA", "BBBB"}]

RECURSIVE SeqsUpTo(_, _)
\* The sequences over S of length at most n.
SeqsUpTo(S, n) ==
    IF n = 0 THEN {<< >>}
    ELSE LET shorter == SeqsUpTo(S, n - 1)
         IN  shorter \cup {Append(q, x) : q \in shorter, x \in S}

\* How the API call settles: it rejects, or resolves to a response with
\* candidates undefined, candidates empty, no content, no parts, or parts.
ApiResults ==
    [rejected : {TRUE}, shape : {"noCandidates"}, parts : {<< >>}]
    \cup [rejected : {FALSE},
          shape : {"noCandidates", "emptyCandidates", "noContent", "noParts"},
          parts : {<< >>}]
    \cup [rejected : {FALSE}, shape : {"parts"},
          parts : SeqsUpTo(Parts, MaxParts)]

\* `data:${part.inlineData.mimeType || 'image/png'};base64,${part.inlineData.data}`
DataUrl(part) ==
    "data:" \o (IF part.mimeType # "" THEN part.mimeType ELSE "image/png")
            \o ";base64," \o part.data

RECURSIVE FirstImage(_, _)
\* for (const part of parts) { if (part.inlineData && part.inlineData.data)
\* { imageUrl = ...; break; } }, imageUrl being '' before the loop.
FirstImage(parts, i) ==
    IF i > Len(parts) THEN ""
    ELSE IF parts[i].inlineData /\ parts[i].data # "" THEN DataUrl(parts[i])
    ELSE FirstImage(parts, i + 1)

Threw(message, called) ==
    [kind |-> "threw", message |-> message, url |-> "", apiCalled |-> called]

\* Variant: the piece is returned without the check of imageUrl.
PieceOrThrow_Unchecked(imageUrl) ==
    [kind |-> "returned", message |-> "", url |-> imageUrl, apiCalled |-> TRUE]

\* if (!imageUrl) throw new Error("No image generated."); return { url: imageUrl, ... }
PieceOrThrow(imageUrl) ==
    IF imageUrl = "" THEN Threw("No image generated.", TRUE)
    ELSE [kind |-> "returned", message |-> "", url |-> imageUrl,
          apiCalled |-> TRUE]

\* generateArtPiece(params) with API_KEY = key and the API call settling as
\* result; whatever is thrown inside the try block is logged and rethrown.
GenerateArtPiece(key, result) ==
    IF key = "" THEN Threw("API Key not found in environment variables.", FALSE)
    ELSE IF result.rejected THEN Threw("request failed", TRUE)
    ELSE IF result.shape = "emptyCandidates"
         THEN Threw("TypeError: reading 'content' of undefined", TRUE)
    ELSE IF result.shape = "parts"
         THEN PieceOrThrow(FirstImage(result.parts, 1))
    ELSE PieceOrThrow("")

ServiceInit ==
    /\ EngineInit
    /\ NoteIdle
    /\ DroneOnlyInit
    /\ LayoutIdle
    /\ AppInit
    /\ apiKey \in {"", "key"}
    /\ apiResult \in ApiResults
    /\ outcome = << >>

\* One call of generateArtPiece.
CallGenerateArtPiece ==
    /\ outcome = << >>
    /\ outcome' = << GenerateArtPiece(apiKey, apiResult) >>
    /\ UNCHANGED <<apiKey, apiResult>>
    /\ UNCHANGED nonServiceVars

ServiceNext == CallGenerateArtPiece

ServiceSpec == ServiceInit /\ [][ServiceNext]_vars

(***************************************************************************)
(* The Gallery's column layout (components/Gallery.tsx): numCols follows   *)
(* the window width, and useMemo deals the items out to the columns.       *)
(* Columns are numbered from 1 here, indexes from 0 as in the source.      *)
(***************************************************************************)

\* window.innerWidth at a resize, around the two breakpoints.
Widths == {320, 767, 768, 1023, 1024, 1920}

\* if (width >= 1024) setNumCols(3); else if (width >= 768) setNumCols(2);
\* else setNumCols(1)
NumColsFor(width) ==
    IF width >= 1024 THEN 3 ELSE IF width >= 768 THEN 2 ELSE 1

\* Variant: the columns are filled from the right.
ColumnOf_FromTheRight(index, n) == (n - 1) - (index % n)

\* cols[index % numCols]
ColumnOf(index, n) == index % n

RECURSIVE Distribute(_, _, _, _)
\* items.forEach((item, index) => { cols[index % numCols].push(item); }),
\* from index on.
Distribute(cols, its, index, n) ==
    IF index >= Len(its) THEN cols
    ELSE Distribute(
            [cols EXCEPT ![ColumnOf(index, n) + 1] = Append(@, its[index + 1])],
            its, index + 1, n)

\* The useMemo body: numCols empty columns, then the distribution.
Columns(its, n) == Distribute([c \in 1..n |-> << >>], its, 0, n)

\* The item lists the App can pass: distinct pieces, newest first.
ItemLists ==
    {q \in SeqsUpTo(1..MaxItems, MaxItems) :
        \A a, b \in 1..Len(q) : q[a] = q[b] => a = b}

\* The first render: numCols is 1 until the mount effect has measured the
\* window.
LayoutInit ==
    /\ EngineInit
    /\ NoteIdle
    /\ DroneOnlyInit
    /\ ServiceIdle
    /\ AppInit
    /\ items \in ItemLists
    /\ numCols = 1
    /\ columns = Columns(items, numCols)

\* handleResize, at mount or on a resize event, and the render it causes.
HandleResize ==
    /\ \E width \in Widths : numCols' = NumColsFor(width)
    /\ columns' = Columns(items, numCols')
    /\ UNCHANGED items
    /\ UNCHANGED nonLayoutVars

LayoutNext == HandleResize

LayoutSpec == LayoutInit /\ [][LayoutNext]_vars

(***************************************************************************)
(* Generation and auto-curation in the App: handleGenerate, the            *)
(* auto-curate effect and its timer, the Commission and Auto buttons of    *)
(* Controls.  A state change re-renders the App and re-runs the effect     *)
(* when one of its dependencies changed; a function created by a render    *)
(* keeps the state values of that render.                                  *)
(***************************************************************************)

\* Variant: the Commission button stays enabled while a generation runs.
CommissionEnabled_WhileGenerating == ~isAutoPlaying

\* Controls: disabled={isGenerating || isAutoPlaying}, loading={isGenerating};
\* Button: disabled={disabled || loading}.
CommissionEnabled == ~(isGenerating \/ isAutoPlaying) /\ ~isGenerating

\* Variant: the effect has no cleanup; a timer it does not replace stays.
AutoCurateEffect_NoCleanup(timer, deps, newDeps) ==
    IF newDeps.isAutoPlaying /\ ~newDeps.isGenerating
    THEN << [delay |-> IF newDeps.length = 0 THEN 500 ELSE 15000,
             sawAutoPlaying |-> newDeps.isAutoPlaying,
             sawGenerating |-> newDeps.isGenerating] >>
    ELSE timer

\* The auto-curate effect after a render: untouched when no dependency
\* changed; otherwise the cleanup clears the old timeout, and a new one is
\* set if (isAutoPlaying) and if (!isGenerating), its runAutoLoop keeping
\* the values of this render.
AutoCurateEffect(timer, deps, newDeps) ==
    IF newDeps = deps THEN timer
    ELSE IF newDeps.isAutoPlaying /\ ~newDeps.isGenerating
    THEN << [delay |-> IF newDeps.length = 0 THEN 500 ELSE 15000,
             sawAutoPlaying |-> newDeps.isAutoPlaying,
             sawGenerating |-> newDeps.isGenerating] >>
    ELSE << >>

\* [isAutoPlaying, isGenerating, galleryItems.length]
Deps(auto, generating, list) ==
    [isAutoPlaying |-> auto, isGenerating |-> generating, length |-> Len(list)]

\* The render after a handler: the effect sees the new state.
Rerender ==
    autoTimer' =
        AutoCurateEffect(autoTimer,
                         Deps(isAutoPlaying, isGenerating, galleryItems),
                         Deps(isAutoPlaying', isGenerating', galleryItems'))

\* The timer's callback has run: the timeout is gone before the render.
RerenderAfterTimer ==
    autoTimer' =
        AutoCurateEffect(<< >>,
                         Deps(isAutoPlaying, isGenerating, galleryItems),
                         Deps(isAutoPlaying', isGenerating', galleryItems'))

\* handleGenerate up to its await: setIsGenerating(true); setError(null);
\* generateArtPiece(params) is pending.  sawAutoPlaying is the isAutoPlaying
\* of the render that created this handleGenerate.
BeginGenerate(caller, sawAutoPlaying) ==
    /\ isGenerating' = TRUE
    /\ error' = << >>
    /\ inFlight' = inFlight \cup {[id |-> generations + 1, by |-> caller,
                                   sawAutoPlaying |-> sawAutoPlaying]}
    /\ generations' = generations + 1
    /\ UNCHANGED <<galleryItems, isAutoPlaying>>

\* The Commission button: handleGenerateClick -> onGenerate(params).
CommissionClick ==
    /\ CommissionEnabled
    /\ generations < MaxGenerations
    /\ BeginGenerate("click", isAutoPlaying)
    /\ Rerender
    /\ UNCHANGED nonAppVars

\* The Auto button: onToggleAutoPlay = () => setIsAutoPlaying(!isAutoPlaying).
ToggleAutoPlay ==
    /\ isAutoPlaying' = ~isAutoPlaying
    /\ UNCHANGED <<galleryItems, isGenerating, error, inFlight, generations>>
    /\ Rerender
    /\ UNCHANGED nonAppVars

\* The auto-curate timeout fires: runAutoLoop, with the values of its render.
AutoTimerFires ==
    /\ autoTimer # << >>
    /\ generations < MaxGenerations
    /\ IF autoTimer[1].sawAutoPlaying /\ ~autoTimer[1].sawGenerating
       THEN BeginGenerate("timer", autoTimer[1].sawAutoPlaying)
       ELSE UNCHANGED <<galleryItems, isGenerating, isAutoPlaying, error,
                        inFlight, generations>>
    /\ RerenderAfterTimer
    /\ UNCHANGED nonAppVars

\* Variant: the new piece goes to the end of the list.
Prepend_AtTheEnd(piece, list) == Append(list, piece)

\* setGalleryItems(prev => [newPiece, ...prev])
Prepend(piece, list) == << piece >> \o list

\* generateArtPiece resolved: the try block and finally.
GenerationSucceeds(g) ==
    /\ g \in inFlight
    /\ galleryItems' = Prepend(g.id, galleryItems)
    /\ isGenerating' = FALSE
    /\ inFlight' = inFlight \ {g}
    /\ UNCHANGED <<isAutoPlaying, error, generations>>
    /\ Rerender

\* generateArtPiece rejected: the catch block and finally; isAutoPlaying is
\* read from the closure of this handleGenerate.
GenerationFails(g) ==
    /\ g \in inFlight
    /\ error' = << "Failed to create art. Please try again. " >>
    /\ isAutoPlaying' = IF g.sawAutoPlaying THEN FALSE ELSE isAutoPlaying
    /\ isGenerating' = FALSE
    /\ inFlight' = inFlight \ {g}
    /\ UNCHANGED <<galleryItems, generations>>
    /\ Rerender

GenerationEnds ==
    /\ \E g \in inFlight : GenerationSucceeds(g) \/ GenerationFails(g)
    /\ UNCHANGED nonAppVars

\* The close button of the error banner: setError(null).
DismissError ==
    /\ error # << >>
    /\ error' = << >>
    /\ UNCHANGED <<galleryItems, isGenerating, isAutoPlaying, inFlight,
                   generations>>
    /\ Rerender
    /\ UNCHANGED nonAppVars

AppNext ==
    \/ CommissionClick
    \/ ToggleAutoPlay
    \/ AutoTimerFires
    \/ GenerationEnds
    \/ DismissError

AppSpec == Init /\ [][AppNext]_vars

(***************************************************************************)
(* Properties of the engine lifecycle.                                     *)
(***************************************************************************)

MelodyNotes == {i \in 1..Len(nodes) : nodes[i].role = "melodyOsc"}

LiveVoices ==
    {i \in 1..Len(nodes) : nodes[i].kind = "osc" /\ nodes[i].state = "running"}

\* A step that is a call of stopAudio (from the button, directly or on unmount).
StopCall == StopAudioBody

\* A step that is a call of startAudio running to its end.
StartCall == starts' = starts + 1

\* C1 as stated: after any sequence of startAudio()/stopAudio() calls the
\* engine is Active iff the last call was startAudio(), however it ended.
C1_ActiveIffLastCallWasStart ==
    isAudioPlaying <=> lastCall \in {"start", "startThrew"}

\* C1 amended: the engine is Active iff the last call was a startAudio() that
\* returned normally (constructing the audio context did not throw).
C1_ActiveIffLastCallWasCompletedStart ==
    isAudioPlaying <=> lastCall = "start"

\* A throwing start, two completed starts and a stop have been called, the
\* stop last.
C1_Witness_RepeatedCalls ==
    /\ starts = 2
    /\ uncaught
    /\ lastCall = "stop"
    /\ ~isAudioPlaying

\* C2: between a stopAudio() and the next startAudio() no playRandomNote tick
\* runs and no voice is created.
C2_NoTickAfterStop ==
    [][(lastCall = "stop" /\ ~StartCall) =>
        (ticks' = ticks /\ Len(nodes') = Len(nodes))]_vars

\* C3: stopAudio() stops every melody note that is in flight when it is called.
C3_StopForcesInFlightNotes ==
    [][StopCall =>
        \A i \in MelodyNotes :
            nodes[i].state = "running" => nodes'[i].state = "stopped"]_vars

\* C4: every voice that has not been stopped is in the teardown list.
C4_NoOrphanedVoices == LiveVoices \subseteq Range(droneNodesRef)

\* C5: startAudio() while Active creates no node and no timer and leaves the
\* teardown list and the engine state as they were.
C5_StartWhileActiveIsNoOp ==
    [][(isAudioPlaying /\ StartCall) =>
        /\ nodes' = nodes
        /\ timers' = timers
        /\ droneNodesRef' = droneNodesRef
        /\ isAudioPlaying']_vars

\* C6: stopAudio() while Idle raises nothing and leaves the engine Idle, the
\* teardown list empty, no timer pending and the context reference unchanged.
C6_StopWhileIdleIsSafe ==
    [][(~isAudioPlaying /\ StopCall) =>
        /\ ~isAudioPlaying'
        /\ droneNodesRef' = << >>
        /\ timers' = {}
        /\ audioCtxRef' = audioCtxRef
        /\ uncaught' = uncaught]_vars

\* C7: the audio context is created at most once; once audioCtxRef holds a
\* context it keeps holding that one; stopAudio() leaves it suspended and a
\* completed startAudio() leaves it running.
C7_ContextCreatedOnce ==
    /\ [](ctxCreated <= 1)
    /\ [](lastCall = "stop" /\ audioCtxRef # 0 => ctxState = "suspended")
    /\ [](lastCall = "start" => audioCtxRef # 0 /\ ctxState = "running")
    /\ [][audioCtxRef # 0 => audioCtxRef' = audioCtxRef]_vars

\* A second session on the context of the first: the first session's drone
\* was stopped and the engine runs again.
C7_Witness_StopThenStart ==
    /\ starts = 2
    /\ lastCall = "start"
    /\ ctxState = "running"
    /\ \E i \in DOMAIN nodes : nodes[i].role = "osc1" /\ nodes[i].state = "stopped"

\* C8: when constructing the audio context throws, the engine is Idle, no
\* node exists and no melody timer is pending.
C8_ThrowLeavesEngineIdle ==
    lastCall = "startThrew" =>
        /\ ~isAudioPlaying
        /\ nodes = << >>
        /\ timers = {}
        /\ melodyTimeoutRef = 0

C8_Witness_ConstructionThrew == lastCall = "startThrew" /\ audioCtxRef = 0

\* C9: no exception leaves startAudio()/toggleAudio().
C9_NoExceptionEscapes == ~uncaught

\* The notes created since the last completed startAudio, its own included.
NotesOfSession == {i \in MelodyNotes : nodes[i].bornIn = starts}

\* C10 as stated: startAudio() then stopAudio() with no melody timer fired in
\* between leaves no melody voice created with a scheduled stop, and Idle.
C10_NoNoteBeforeFirstTimer ==
    (lastCall = "stop" /\ starts >= 1 /\ ticksSinceStart = 0) =>
        NotesOfSession = {} /\ ~isAudioPlaying

\* C10 amended: a completed startAudio() then stopAudio() with no melody
\* timer fired in between leaves exactly one melody voice of that session,
\* the one startAudio() plays itself, and the engine Idle.
C10_OnlyTheStartNoteBeforeFirstTimer ==
    (lastCall = "stop" /\ starts >= 1 /\ ticksSinceStart = 0) =>
        Cardinality(NotesOfSession) = 1 /\ ~isAudioPlaying

C10_Witness_StartThenStop ==
    /\ lastCall = "stop"
    /\ starts = 1
    /\ ticks = 0
    /\ Len(nodes) > 0

\* A step in which a melody timer fires.
TickStep == ticks' = ticks + 1

\* C11: a melody timer is pending whenever the engine is Active and none is
\* whenever it is Idle, and only stopAudio() leaves the scheduler with no
\* timer pending, never a tick.
C11_TimerPendingIffActive ==
    /\ [](isAudioPlaying <=> timers # {})
    /\ [][(timers # {} /\ timers' = {}) => StopCall]_vars

\* C12: a tick that fires while the engine is Idle creates no voice and
\* queues no further tick.
C12_IdleTickDoesNothing ==
    [][(~isAudioPlaying /\ TickStep) =>
        (Len(nodes') = Len(nodes) /\ timers' \subseteq timers)]_vars

\* C13: every tick and every start leaves the next tick queued under
\* melodyTimeoutRef, and while the engine stays Active the timers keep
\* firing (here: up to the bound on firings).
C13_SchedulerNeverStalls ==
    /\ [][(TickStep \/ StartCall) =>
            \E t \in timers' : t.id = melodyTimeoutRef']_vars
    /\ [](isAudioPlaying => timers # {})
    /\ (isAudioPlaying ~> (~isAudioPlaying \/ ticks = MaxTicks))

\* Two timers of one Active session have fired and a third is queued.
C13_Witness_TicksInOneSession ==
    /\ isAudioPlaying
    /\ ticksSinceStart >= 2
    /\ \E t \in timers : t.id = melodyTimeoutRef

DroneVoiceRoles == {"osc1", "lfo1", "osc2", "lfo2"}

BankRoles ==
    {"osc1", "osc1Gain", "lfo1", "lfo1Gain", "osc2", "osc2Gain", "lfo2", "lfo2Gain"}

\* C14: a drone oscillator or LFO is stopped or disconnected by stopAudio()
\* alone, never by a timer, a tick or a note's scheduled stop.
C14_DronesNeverSelfTerminate ==
    [][\A i \in 1..Len(nodes) :
          (nodes[i].role \in DroneVoiceRoles /\ nodes'[i] # nodes[i])
              => StopCall]_vars

\* An Active session in which a timer fired and a note reached its stop,
\* its drones and LFOs all running and connected.
C14_Witness_DronesOutliveNotes ==
    /\ isAudioPlaying
    /\ ticksSinceStart >= 1
    /\ \E i \in MelodyNotes : nodes[i].state = "ended"
    /\ \A i \in 1..Len(nodes) :
          (nodes[i].role \in DroneVoiceRoles /\ nodes[i].bornIn = starts)
              => (nodes[i].state = "running" /\ nodes[i].out # {})

\* The sustained tone oscillators of the bank built by the last start.
SessionDrones ==
    {i \in 1..Len(nodes) :
        nodes[i].bornIn = starts /\ nodes[i].role \in {"osc1", "osc2"}}

\* C15: a completed startAudio() leaves the engine Active, with one bank of
\* as many tone oscillators as the chord has frequencies, tuned to them, and
\* the teardown list holding exactly that bank's nodes; after a single start
\* no other bank exists.
C15_StartBuildsOneBank ==
    lastCall = "start" =>
        /\ isAudioPlaying
        /\ Cardinality(SessionDrones) = Len(DroneChord)
        /\ {nodes[i].val : i \in SessionDrones} = Range(DroneChord)
        /\ Range(droneNodesRef) =
              {i \in 1..Len(nodes) :
                  nodes[i].bornIn = starts /\ nodes[i].role \in BankRoles}
        /\ (starts = 1 =>
              Cardinality({i \in 1..Len(nodes) : nodes[i].role \in BankRoles})
                  = Cardinality(BankRoles))

C15_Witness_SingleStart ==
    /\ lastCall = "start"
    /\ starts = 1
    /\ ~uncaught
    /\ Len(droneNodesRef) > 0

\* C16: the soundscape a start builds has exactly 5 sustained tone
\* oscillators, LFOs not counted.
C16_ChordOfFiveOscillators ==
    lastCall = "start" => Cardinality(SessionDrones) = 5

\* C17: the feedback gain of every delay loop is at least 0 and below 1.
C17_FeedbackGainBelowOne ==
    \A i \in 1..Len(nodes) :
        nodes[i].role = "delayFeedback" =>
            (nodes[i].val >= 0 /\ nodes[i].val < 1000)

\* The delay loops of two sessions, the first torn down.
C17_Witness_TwoSessions ==
    /\ Cardinality({i \in 1..Len(nodes) : nodes[i].role = "delayFeedback"}) = 2
    /\ lastCall = "stop"
    /\ ticks >= 1

\* C18: the note lasts 2 to 5 seconds and the next tick comes 2 to 7
\* seconds later, whatever Math.random() returns.
C18_DurationAndIntervalInRange ==
    note # << >> =>
        /\ note[1].duration >= 2000 /\ note[1].duration <= 5000
        /\ note[1].nextInterval >= 2000 /\ note[1].nextInterval <= 7000

\* The largest values Math.random() can return.
C18_Witness_LargestDraws ==
    /\ note # << >>
    /\ rnd.duration = RandSteps - 1
    /\ rnd.interval = RandSteps - 1

\* C19: the oscillator stops strictly after the decay ends, by the margin
\* added to start + duration; the attack ends before the decay does; the
\* decay aims at a level above zero.
C19_StopAfterDecay ==
    note # << >> =>
        /\ note[1].stopAt > note[1].envelope.decayEnd
        /\ note[1].stopAt > note[1].startAt + note[1].duration
        /\ note[1].envelope.attackEnd < note[1].envelope.decayEnd
        /\ note[1].envelope.floor > 0

\* The shortest note, played when the audio clock has advanced.
C19_Witness_ShortestNote ==
    /\ note # << >>
    /\ rnd.duration = 0
    /\ rnd.now > 0

\* C20: a start leaves the master gain at zero, to be ramped up, not at its
\* base level.
C20_MasterGainStartsSilent ==
    lastCall = "start" => nodes[masterGainRef].val = 0

(***************************************************************************)
(* Signal flow in a node graph ns: a.connect(b) carries a's output to b's  *)
(* input, a.connect(b.param) adds it to the value of an AudioParam of b.   *)
(***************************************************************************)

\* The nodes (0 = ctx.destination) whose input node i is connected to.
Succ(ns, i) == {t[1] : t \in {u \in ns[i].out : u[2] = "in"}}

RECURSIVE Downstream(_, _)
\* Every node the output of a node of S flows into, S included.
Downstream(ns, S) ==
    LET T == S \cup UNION {Succ(ns, i) : i \in S \ {0}}
    IN  IF T = S THEN S ELSE Downstream(ns, T)

\* The output of node i is heard: it flows into ctx.destination.
ReachesDestination(ns, i) == 0 \in Downstream(ns, {i})

\* The AudioParams <<node, param>> the output of node i is added to.
ParamsDriven(ns, i) ==
    {u \in UNION {ns[j].out : j \in Downstream(ns, {i}) \ {0}} : u[2] # "in"}

\* The LFOs of the drone bank, and the drone voice each one modulates:
\* startAudio creates osc, its gain, its LFO and the LFO's depth gain in
\* this order, so the voice is two nodes before its LFO.
Lfos == {i \in 1..Len(nodes) : nodes[i].role \in {"lfo1", "lfo2"}}

ModulatedVoice(i) == i - 2

\* The master gains that feed ctx.destination (through their compressor).
ConnectedMasterChains ==
    {i \in 1..Len(nodes) :
        nodes[i].role = "masterGain" /\ ReachesDestination(nodes, i)}

\* C22: an LFO runs exactly as long as the drone voice it modulates, so a
\* stop that stops one stops the other in the same call; and after a
\* stopAudio() every LFO of the bank the preceding startAudio() built is
\* stopped.
C22_LfoStoppedWithItsVoice ==
    /\ \A i \in Lfos : nodes[i].state = nodes[ModulatedVoice(i)].state
    /\ lastCall = "stop" =>
          \A i \in Lfos : nodes[i].bornIn = starts => nodes[i].state = "stopped"

\* A bank has been built and torn down: its LFOs and voices are stopped.
C22_Witness_BankTornDown ==
    /\ lastCall = "stop"
    /\ \E i \in Lfos :
          /\ nodes[i].bornIn = starts
          /\ nodes[i].state = "stopped"
          /\ nodes[ModulatedVoice(i)].state = "stopped"

\* C29: at most one master output chain is connected to ctx.destination,
\* and after a stopAudio() none is.
C29_OneMasterChainNoneAfterStop ==
    /\ Cardinality(ConnectedMasterChains) <= 1
    /\ lastCall = "stop" => ConnectedMasterChains = {}

\* C30: when startAudio() follows a stopAudio(), no oscillator created
\* before that start is running with a connected path to ctx.destination.
C30_NoVoiceFromAnEarlierSession ==
    [][(lastCall = "stop" /\ StartCall) =>
        \A i \in 1..Len(nodes) :
            ~ /\ nodes'[i].kind = "osc"
              /\ nodes'[i].state = "running"
              /\ ReachesDestination(nodes', i)]_vars

\* The tone oscillators and the LFOs of the drone-only engine's layers.
DroneLayerVoices ==
    {i \in 1..Len(droneNodes) :
        droneNodes[i].role = "osc" /\ droneNodes[i].state = "running"}

DroneLfos ==
    {i \in 1..Len(droneNodes) :
        droneNodes[i].role = "lfo" /\ droneNodes[i].state = "running"}

\* C21: while the engine plays, every drone layer has an LFO whose output
\* reaches the gain parameter of that layer's amplifier, and every LFO
\* reaches a parameter of some node that is heard.
C21_EveryLayerBreathes ==
    dronePlaying =>
        /\ \A i \in DroneLayerVoices :
              \E l \in DroneLfos, g \in Succ(droneNodes, i) :
                  <<g, "gain">> \in ParamsDriven(droneNodes, l)
        /\ \A l \in DroneLfos :
              \E u \in ParamsDriven(droneNodes, l) :
                  ReachesDestination(droneNodes, u[1])

\* The response carries inline image data: some part has non-empty
\* inlineData.data.
HasInlineImage ==
    /\ ~apiResult.rejected
    /\ apiResult.shape = "parts"
    /\ \E i \in 1..Len(apiResult.parts) :
          apiResult.parts[i].inlineData /\ apiResult.parts[i].data # ""

C24_ColumnsKeepListOrder ==
    /\ numCols \in {1, 2, 3}
    /\ Len(columns) = numCols
    /\ \A p \in 1..Len(items) :
          LET c == ((p - 1) % numCols) + 1
              k == ((p - 1) \div numCols) + 1
          IN  /\ k <= Len(columns[c])
              /\ columns[c][k] = items[p]
              /\ Cardinality({<<d, j>> \in (1..numCols) \X (1..Len(items)) :
                    j <= Len(columns[d]) /\ columns[d][j] = items[p]}) = 1
    /\ \A c \in 1..numCols :
          \A a, b \in 1..Len(columns[c]) :
              a < b =>
                  \E pa, pb \in 1..Len(items) :
                      /\ items[pa] = columns[c][a]
                      /\ items[pb] = columns[c][b]
                      /\ pa < pb

\* The longest list laid out in three columns: the first column holds more
\* than one item.
C24_Witness_ThreeColumns ==
    /\ numCols = 3
    /\ Len(items) = MaxItems
    /\ Len(columns[1]) > 1

\* A step in which some pending generateArtPiece call rejects, or resolves.
FailStep == \E g \in inFlight : GenerationFails(g)

SuccessStep == \E g \in inFlight : GenerationSucceeds(g)

\* C25: at most one handleGenerate call is awaiting generateArtPiece.
C25_OneGenerationInFlight ==
    /\ Cardinality(inFlight) <= 1
    /\ isGenerating <=> inFlight # {}

\* A generation the timer started is in flight, after an earlier one and
\* with auto-curation toggled meanwhile.
C25_Witness_TimerStartedGeneration ==
    /\ generations > 1
    /\ \E g \in inFlight : g.by = "timer"
    /\ ~isAutoPlaying

\* C26: when a generation fails while auto-curation is on, auto-curation is
\* off afterwards and no auto timer is pending.
C26_FailureSwitchesAutoOff ==
    [][(FailStep /\ isAutoPlaying) =>
        (~isAutoPlaying' /\ autoTimer' = << >>)]_vars

\* C27: a failed generation leaves galleryItems as it was and sets an error
\* message; a successful one puts exactly one new piece in front of the
\* list; either way isGenerating is false afterwards.
C27_GenerationOutcome ==
    [][/\ FailStep =>
            /\ galleryItems' = galleryItems
            /\ error' # << >>
            /\ ~isGenerating'
       /\ SuccessStep =>
            /\ Len(galleryItems') = Len(galleryItems) + 1
            /\ Tail(galleryItems') = galleryItems
            /\ Head(galleryItems') \notin Range(galleryItems)
            /\ ~isGenerating']_vars

\* Both outcomes have happened: the gallery holds two pieces and an error
\* is shown.
C27_Witness_SuccessesThenFailure ==
    /\ Len(galleryItems) = 2
    /\ error # << >>
    /\ ~isGenerating

====
